---- MODULE Spec2Model ----
(***************************************************************************)
(* A model of tsfc/fem.py: the tabulation cache (tabulate,                 *)
(* TabulationManager), facet selection (Translator), the component and     *)
(* derivative enumeration (iterate_shape), the Argument and Coefficient    *)
(* translation rules and the driver (process).                             *)
(*                                                                         *)
(* Numbers are fixed-point integers: the integer v stands for v / One.     *)
(* A table is a record [rank, data]: rank 1 is a row over basis functions, *)
(* rank 2 is rows over points, rank 3 is rank-2 data per facet.            *)
(***************************************************************************)
EXTENDS Integers, Sequences, FiniteSets, TLC

VARIABLES
    pc,             \* position of process: start, tabulate, restrict, translate, done, failed
    error,          \* the exception that ended process, or "none"
    integral_type,  \* argument of process
    nargs,          \* len(argument_indices)
    cell,           \* argument of process
    integrand,      \* the modified terminals of the integrand, in DAG order
    fiat,           \* the basis library: what element.tabulate returns
    max_derivs,     \* process: element name -> maximal local derivative
    pending,        \* elements of max_derivs.items() not yet visited
    tables,         \* TabulationManager.tables
    calls,          \* history: the (element, order) of each TabulationManager.tabulate call
    writes,         \* history: number of assignments made to each key of tables
    reads,          \* history: number of lookups TabulationManager.__getitem__ served
    expressions,    \* process: the integrand variants
    results,        \* what map_expr_dags has produced so far
    call,           \* the arguments of the function exercised on its own
    ret             \* its result

vars == <<pc, error, integral_type, nargs, cell, integrand, fiat, max_derivs,
          pending, tables, calls, writes, reads, expressions, results, call, ret>>

procvars == <<pc, error, integral_type, nargs, cell, integrand, fiat, max_derivs,
              pending, tables, calls, writes, reads, expressions, results>>

(***************************************************************************)
(* Bounds of the model.                                                    *)
(***************************************************************************)
MaxDeriv == 1       \* local derivatives of a terminal of process
MaxArgs == 2        \* argument slots
MaxTerminals == 2   \* modified terminals of an integrand
NumPoints == 2      \* quadrature points
MaxDim == 3         \* spatial dimension handed to iterate_shape on its own
MaxOrder == 2       \* derivative order handed to iterate_shape on its own
MaxComp == 3        \* reference value size handed to iterate_shape on its own
MaxRank == 2        \* rank of a value shape
MaxExtent == 3      \* extent of one dimension of a value shape
MaxPhi == 3         \* basis functions of a table handed to the Coefficient rule on its own

(***************************************************************************)
(* Fixed-point encoding of the numbers of tabulate: One stands for 1.0,    *)
(* Half for 0.5, Eps for epsilon.                                          *)
(***************************************************************************)
One == 16
Half == 8
Eps == 2
\* the absolute tolerance of compat.allclose, in the same units
Tol == 2

Range(n) == 0 .. (n - 1)

\* the sequence s and the function f themselves, as values TLC evaluates once;
\* for the same reason an action names a value it uses often with \E over a
\* singleton
Tuple(s) == s \o <<>>
Map(f) == f @@ <<>>

RECURSIVE Pow(_, _)
Pow(b, e) == IF e = 0 THEN 1 ELSE b * Pow(b, e - 1)

RECURSIVE SeqSum(_)
SeqSum(s) == IF s = <<>> THEN 0 ELSE Head(s) + SeqSum(Tail(s))

\* numpy.prod(shape); the product of the empty shape is 1
RECURSIVE Prod(_)
Prod(shape) == IF shape = <<>> THEN 1 ELSE Head(shape) * Prod(Tail(shape))

(***************************************************************************)
(* iterate_shape                                                           *)
(***************************************************************************)

\* itertools.product(range(n), repeat=d): the last position varies fastest
RECURSIVE Product(_, _)
Product(n, d) ==
    IF d = 0 THEN << <<>> >>
    ELSE LET P == Product(n, d - 1)
         IN  [i \in 1 .. (Len(P) * n) |-> Append(P[((i - 1) \div n) + 1], (i - 1) % n)]

\* (numpy.asarray(ordered_deriv) == k).sum()
RECURSIVE CountEqual(_, _)
CountEqual(ordered_deriv, k) ==
    IF ordered_deriv = <<>> THEN 0
    ELSE (IF Head(ordered_deriv) = k THEN 1 ELSE 0) + CountEqual(Tail(ordered_deriv), k)

\* a faulty flat_index, which does not count the first direction of the
\* sequence; C7 tells it from flat_index
flat_index_dropfirst(ordered_deriv, n) ==
    [k \in 1 .. n |-> IF ordered_deriv = <<>> THEN 0 ELSE CountEqual(Tail(ordered_deriv), k - 1)]

\* flat_index: one count per direction; the tuple is 1-indexed here, entry k
\* counts direction k - 1
flat_index(ordered_deriv, n) ==
    [k \in 1 .. n |-> CountEqual(ordered_deriv, k - 1)]

flat_derivs(n, d) ==
    LET od == Product(n, d) IN [i \in 1 .. Len(od) |-> flat_index(od[i], n)]

\* the keys iterate_shape hands to its callback, in call order: the loop over
\* range(reference_value_size) is the outer one
iterate_keys(element, n, d) ==
    LET fd == flat_derivs(n, d)
    IN  [i \in 1 .. (element.rvs * Len(fd)) |->
            [element |-> element.name, c |-> (i - 1) \div Len(fd), D |-> fd[((i - 1) % Len(fd)) + 1]]]

Failed(err) == [status |-> err, value |-> <<>>]
Returned(v) == [status |-> "ok", value |-> v]

\* a faulty reassemble, without the assertion on the count; C6 tells it from
\* reassemble
reassemble_noassert(result, shape) ==
    IF shape # <<>>
    THEN Returned([node |-> "ListTensor", shape |-> shape, items |-> result])
    ELSE Returned(result[1])

\* the end of iterate_shape: results is the sequence of the callback's outcomes.
\* The first callback that raises ends the loop; then the count is asserted
\* against numpy.prod(shape) and the scalars are reshaped.
reassemble(result, shape) ==
    IF Len(result) # Prod(shape) THEN Failed("AssertionError")
    ELSE IF shape # <<>>
    THEN Returned([node |-> "ListTensor", shape |-> shape, items |-> result])
    ELSE Returned(result[1])

FirstFailure(outcomes) ==
    LET bad == {i \in 1 .. Len(outcomes) : outcomes[i].status # "ok"}
    IN  IF bad = {} THEN 0 ELSE CHOOSE i \in bad : \A j \in bad : i <= j

iterate_shape(outcomes, shape) ==
    LET f == FirstFailure(outcomes)
    IN  IF f # 0 THEN Failed(outcomes[f].status)
        ELSE reassemble([i \in 1 .. Len(outcomes) |-> outcomes[i].value], shape)

(***************************************************************************)
(* Cells and elements                                                      *)
(***************************************************************************)

\* tdim: cell.topological_dimension(); facets: cell.num_facets();
\* base_facets: cell.sub_cells()[0].num_facets() of an extruded cell
Cells ==
    { [name |-> "interval", tdim |-> 1, facets |-> 2, extruded |-> FALSE, base_facets |-> 0],
      [name |-> "interval*interval", tdim |-> 2, facets |-> 4, extruded |-> TRUE, base_facets |-> 2] }

\* degree: spanning_degree(ufl_element); rvs: reference_value_size();
\* nsym: len(symmetry()); phi: space_dimension() of the FIAT element;
\* shape: the value shape of the element
Elements ==
    { [name |-> "P1", family |-> "Lagrange", degree |-> 1, rvs |-> 1, nsym |-> 0, phi |-> 2, shape |-> <<>>],
      [name |-> "VDG0", family |-> "Discontinuous Lagrange", degree |-> 0, rvs |-> 2, nsym |-> 0, phi |-> 2, shape |-> <<2>>],
      [name |-> "SymDG0", family |-> "Discontinuous Lagrange", degree |-> 0, rvs |-> 4, nsym |-> 1, phi |-> 1, shape |-> <<2, 2>>],
      [name |-> "R0", family |-> "Real", degree |-> 0, rvs |-> 1, nsym |-> 0, phi |-> 1, shape |-> <<>>] }

ElementNamed(n) == CHOOSE e \in Elements : e.name = n

\* the derivative tuples FIAT returns for an order: every multi-index of sum <= order
MultiIndices(n, order) == {D \in [1 .. n -> 0 .. order] : SeqSum(D) <= order}

(***************************************************************************)
(* The basis library.  fiat maps <<element name, D>> to [row, dp, df]: the *)
(* values of the basis functions at the first point of the first entity,   *)
(* what the first basis function gains at every other point (dp) and on    *)
(* every other entity (df).                                                *)
(***************************************************************************)

\* element.tabulate(order, points)[D], shape (phi, C, q), on entity f
FiatTable(lib, element, D, f, q) ==
    LET e == lib[<<element.name, D>>]
    IN  [i \in 1 .. element.phi |-> [c \in 1 .. (element.rvs - element.nsym) |-> [p \in 1 .. q |->
            e.row[i] + (IF i = 1 /\ p > 1 THEN e.dp ELSE 0) + (IF i = 1 /\ f > 1 THEN e.df ELSE 0)]]]

(***************************************************************************)
(* tabulate                                                                *)
(***************************************************************************)

Abs(x) == IF x < 0 THEN -x ELSE x

SnapTo(v, target) == IF Abs(v - target) < Eps THEN target ELSE v

\* the five assignments of tabulate, in order
Snap(v) == SnapTo(SnapTo(SnapTo(SnapTo(SnapTo(v, 0), One), -One), Half), -Half)

\* compat.allclose(a, mean) for one entry, with mean = total / n
Close(a, total, n) == Abs(n * a - total) <= n * Tol

\* table.sum(axis=0)
ColumnTotals(rows) == [i \in 1 .. Len(rows[1]) |-> SeqSum([k \in 1 .. Len(rows) |-> rows[k][i]])]

\* compat.allclose(table, table.mean(axis=0, keepdims=True)) of a 2-D array
MeanCheck(rows) ==
    LET totals == ColumnTotals(rows)
    IN  \A r \in 1 .. Len(rows) : \A i \in 1 .. Len(rows[1]) : Close(rows[r][i], totals[i], Len(rows))

\* _tabulate: reshape(phi, C, q).transpose(1, 2, 0), component c (0-based)
Reordered(fiat_table, c) ==
    [p \in 1 .. Len(fiat_table[1][c + 1]) |-> [i \in 1 .. Len(fiat_table) |-> fiat_table[i][c + 1][p]]]

Snapped(rows) == [p \in 1 .. Len(rows) |-> [i \in 1 .. Len(rows[p]) |-> Snap(rows[p][i])]]

Table(rank, data) == [rank |-> rank, data |-> data]

\* a faulty rule, which compares the degree with the order tabulate was
\* called with; C3 tells it from IsConstant
IsConstant_byorder(element, D, order) == element.degree <= order

\* the symbolic rule of tabulate: spanning_degree(ufl_element) <= sum(D)
IsConstant(element, D, order) == element.degree <= SeqSum(D)

\* what tabulate yields for (c, D) on entity f, or the assertion it fails with
tabulate_one(lib, element, order, D, c, f, q) ==
    LET rows == Snapped(Reordered(FiatTable(lib, element, D, f, q), c))
    IN  IF IsConstant(element, D, order)
        THEN IF MeanCheck(rows) THEN Returned(Table(1, rows[1])) ELSE Failed("AssertionError")
        ELSE Returned(Table(2, rows))

\* the (c, D) pairs _tabulate yields: C = reference_value_size - len(symmetry)
tabulate_pairs(element, n, order) ==
    {<<c, D>> : c \in Range(element.rvs - element.nsym), D \in MultiIndices(n, order)}

(***************************************************************************)
(* TabulationManager                                                       *)
(***************************************************************************)

\* a faulty __init__, which takes any other integral type for a horizontal
\* facet type; C2 tells it from NumTabulators
NumTabulators_lenient(itype, cl) ==
    IF itype = "cell" THEN 1
    ELSE IF itype \in {"exterior_facet", "interior_facet"} THEN cl.facets
    ELSE IF itype \in {"exterior_facet_bottom", "exterior_facet_top", "interior_facet_horiz"} THEN 2
    ELSE IF itype \in {"exterior_facet_vert", "interior_facet_vert"} THEN cl.base_facets
    ELSE 2

\* TabulationManager.__init__: the number of tabulators, -1 when the integral
\* type is not supported
NumTabulators(itype, cl) ==
    IF itype = "cell" THEN 1
    ELSE IF itype \in {"exterior_facet", "interior_facet"} THEN cl.facets
    ELSE IF itype \in {"exterior_facet_bottom", "exterior_facet_top", "interior_facet_horiz"} THEN 2
    ELSE IF itype \in {"exterior_facet_vert", "interior_facet_vert"} THEN cl.base_facets
    ELSE -1

Key(element, c, D) == [element |-> element.name, c |-> c, D |-> D]

\* store[(ufl_element, c, D)]: the outcomes of the tabulators, in order
Store(lib, itype, cl, element, order, c, D, q) ==
    Tuple([f \in 1 .. NumTabulators(itype, cl) |-> tabulate_one(lib, element, order, D, c, f, q)])

\* a faulty entry, which stores the first facet's row unchecked; C4 tells it
\* from entry
entry_nofacetcheck(itype, outcomes) ==
    IF itype = "cell" THEN outcomes[1]
    ELSE IF outcomes[1].value.rank = 1
    THEN Returned(outcomes[1].value)
    ELSE Returned(Table(3, Tuple([f \in 1 .. Len(outcomes) |-> outcomes[f].value.data])))

\* the second half of TabulationManager.tabulate for one key whose tabulators
\* all yielded: the table to store, or the assertion it fails with
entry(itype, outcomes) ==
    IF itype = "cell" THEN outcomes[1]
    ELSE IF outcomes[1].value.rank = 1
    THEN IF MeanCheck([f \in 1 .. Len(outcomes) |-> outcomes[f].value.data])
         THEN Returned(outcomes[1].value)
         ELSE Failed("AssertionError")
    ELSE Returned(Table(3, Tuple([f \in 1 .. Len(outcomes) |-> outcomes[f].value.data])))

Lookup(cache, key) == IF key \in DOMAIN cache THEN Returned(cache[key]) ELSE Failed("KeyError")

(***************************************************************************)
(* Translator                                                              *)
(***************************************************************************)

\* gem.VariableIndex(gem.Indexed(gem.Variable('facet', (size,)), (at,)))
FacetVariable(size, at) == [kind |-> "variable", size |-> size, at |-> at]
\* a facet index known when the kernel is generated
FacetStatic(at) == [kind |-> "static", size |-> 0, at |-> at]
\* no facet selection: the tensor itself
Whole == [kind |-> "whole", size |-> 0, at |-> 0]

\* a faulty dict, with the two sides and top and bottom exchanged; C8 tells
\* it from facet
facet_swapped(itype) ==
    IF itype \in {"exterior_facet", "exterior_facet_vert"}
    THEN [r \in {"none"} |-> FacetVariable(1, 0)]
    ELSE IF itype \in {"interior_facet", "interior_facet_vert"}
    THEN [r \in {"+", "-"} |-> IF r = "+" THEN FacetVariable(2, 1) ELSE FacetVariable(2, 0)]
    ELSE IF itype = "exterior_facet_bottom" THEN [r \in {"none"} |-> FacetStatic(1)]
    ELSE IF itype = "exterior_facet_top" THEN [r \in {"none"} |-> FacetStatic(0)]
    ELSE IF itype = "interior_facet_horiz"
    THEN [r \in {"+", "-"} |-> IF r = "+" THEN FacetStatic(0) ELSE FacetStatic(1)]
    ELSE [r \in {} |-> Whole]

\* Translator.__init__: self.facet, a dict from restriction to facet index
\* (the empty dict stands for None)
facet(itype) ==
    IF itype \in {"exterior_facet", "exterior_facet_vert"}
    THEN [r \in {"none"} |-> FacetVariable(1, 0)]
    ELSE IF itype \in {"interior_facet", "interior_facet_vert"}
    THEN [r \in {"+", "-"} |-> IF r = "+" THEN FacetVariable(2, 0) ELSE FacetVariable(2, 1)]
    ELSE IF itype = "exterior_facet_bottom" THEN [r \in {"none"} |-> FacetStatic(0)]
    ELSE IF itype = "exterior_facet_top" THEN [r \in {"none"} |-> FacetStatic(1)]
    ELSE IF itype = "interior_facet_horiz"
    THEN [r \in {"+", "-"} |-> IF r = "+" THEN FacetStatic(1) ELSE FacetStatic(0)]
    ELSE [r \in {} |-> Whole]

\* Translator.select_facet: the facet index applied to the tensor
select_facet(itype, restriction) ==
    IF itype = "cell" THEN Returned(Whole)
    ELSE IF restriction \in DOMAIN facet(itype) THEN Returned(facet(itype)[restriction])
    ELSE Failed("KeyError")

(***************************************************************************)
(* translate                                                               *)
(***************************************************************************)

\* a scalar GEM expression: node is the root's kind, table the literal under
\* it, facet what select_facet applied, index the argument's index, side the
\* index applied to the kernel argument (-1 for none), terms the basis
\* indices of an expanded sum
Scalar(node, table, fct, index, side, terms) ==
    [node |-> node, table |-> table, facet |-> fct, index |-> index, side |-> side, terms |-> terms]

NoTable == Table(0, <<>>)
Unselected == [kind |-> "unselected", size |-> 0, at |-> 0]

\* translate for Argument: callback(key)
argument_callback(cache, itype, mt, key) ==
    LET t == Lookup(cache, key)
    IN  IF t.status # "ok" THEN t
        ELSE IF t.value.rank = 1
        THEN Returned(Scalar("Indexed", t.value, Unselected, mt.number, 0 - 1, <<>>))
        ELSE LET f == select_facet(itype, mt.restriction)
             IN  IF f.status # "ok" THEN f
                 ELSE Returned(Scalar("Indexed", t.value, f.value, mt.number, 0 - 1, <<>>))

\* numpy.count_nonzero of a 1-D table
RECURSIVE count_nonzero(_)
count_nonzero(row) ==
    IF row = <<>> THEN 0 ELSE (IF Head(row) # 0 THEN 1 ELSE 0) + count_nonzero(Tail(row))

\* {None: (), '+': (0,), '-': (1,)}[mt.restriction]
Side(restriction) == IF restriction = "+" THEN 0 ELSE IF restriction = "-" THEN 1 ELSE 0 - 1

\* a faulty expansion, which sums the first two products only; C5 tells it
\* from expanded_terms
expanded_terms_nonzerofirst(row) ==
    [i \in 1 .. (IF Len(row) > 2 THEN 2 ELSE Len(row)) |-> i - 1]

\* [... for i in range(row.shape[0])]: the basis indices of the products
expanded_terms(row) == [i \in 1 .. Len(row) |-> i - 1]

\* translate for Coefficient: callback(key), once the table t is looked up
coefficient_table(t, itype, mt) ==
    IF t.rank = 1 /\ count_nonzero(t.data) <= 2
    THEN Returned(Scalar("Sum", t, Unselected, 0, Side(mt.restriction), expanded_terms(t.data)))
    ELSE IF t.rank = 1
    THEN Returned(Scalar("IndexSum", t, Unselected, 0, Side(mt.restriction), <<>>))
    ELSE LET f == select_facet(itype, mt.restriction)
         IN  IF f.status # "ok" THEN f
             ELSE Returned(Scalar("IndexSum", t, f.value, 0, Side(mt.restriction), <<>>))

coefficient_callback(cache, itype, mt, key) ==
    LET t == Lookup(cache, key)
    IN  IF t.status # "ok" THEN t ELSE coefficient_table(t.value, itype, mt)

\* the dispatch of translate on the terminal's type
translate(cache, itype, n, mt) ==
    IF mt.kind = "QuadratureWeight"
    THEN Returned(Scalar("Weight", NoTable, Unselected, 0, 0 - 1, <<>>))
    ELSE IF mt.kind = "GeometricQuantity"
    THEN Returned(Scalar("Geometric", NoTable, Unselected, 0, 0 - 1, <<>>))
    ELSE IF mt.kind = "Argument"
    THEN LET keys == iterate_keys(ElementNamed(mt.element), n, mt.local_derivatives)
         IN  iterate_shape([i \in 1 .. Len(keys) |-> argument_callback(cache, itype, mt, keys[i])], mt.shape)
    ELSE IF mt.kind = "Coefficient"
    THEN IF ElementNamed(mt.element).family = "Real"
         THEN IF mt.local_derivatives # 0 THEN Failed("AssertionError")
              ELSE Returned(Scalar("KernelArg", NoTable, Unselected, 0, 0 - 1, <<>>))
         ELSE LET keys == iterate_keys(ElementNamed(mt.element), n, mt.local_derivatives)
              IN  iterate_shape([i \in 1 .. Len(keys) |-> coefficient_callback(cache, itype, mt, keys[i])], mt.shape)
    ELSE Failed("AssertionError")

\* the keys a terminal's translation hands to TabulationManager.__getitem__:
\* those up to the first callback that raises
LookedUp(cache, itype, n, mt) ==
    IF mt.kind \notin {"Argument", "Coefficient"} THEN {}
    ELSE IF mt.kind = "Coefficient" /\ ElementNamed(mt.element).family = "Real" THEN {}
    ELSE LET keys == iterate_keys(ElementNamed(mt.element), n, mt.local_derivatives)
             outs == [i \in 1 .. Len(keys) |->
                         IF mt.kind = "Argument" THEN argument_callback(cache, itype, mt, keys[i])
                         ELSE coefficient_callback(cache, itype, mt, keys[i])]
             f == FirstFailure(outs)
         IN  {keys[i] : i \in 1 .. (IF f = 0 THEN Len(keys) ELSE f)}

(***************************************************************************)
(* process                                                                 *)
(***************************************************************************)

IsFormArgument(mt) == mt.kind \in {"Argument", "Coefficient"}

RECURSIVE SetMax(_)
SetMax(S) == IF S = {} THEN 0 ELSE LET x == CHOOSE x \in S : TRUE
                                    IN  LET m == SetMax(S \ {x}) IN IF x > m THEN x ELSE m

\* a faulty max_derivs, which keeps the local_derivatives of an element's
\* first terminal; C9 tells it from collect_max_derivs
collect_max_derivs_first(terms) ==
    LET names == {terms[i].element : i \in {j \in 1 .. Len(terms) : IsFormArgument(terms[j])}}
    IN  [e \in names |-> terms[CHOOSE i \in 1 .. Len(terms) :
                                   /\ IsFormArgument(terms[i]) /\ terms[i].element = e
                                   /\ \A j \in 1 .. (i - 1) : ~(IsFormArgument(terms[j]) /\ terms[j].element = e)].local_derivatives]

\* max_derivs: for every element of a FormArgument terminal the maximum of
\* its terminals' local_derivatives
collect_max_derivs(terms) ==
    LET names == {terms[i].element : i \in {j \in 1 .. Len(terms) : IsFormArgument(terms[j])}}
    IN  [e \in names |->
            SetMax({terms[i].local_derivatives : i \in {j \in 1 .. Len(terms) : IsFormArgument(terms[j]) /\ terms[j].element = e}})]

\* itertools.product(("+", "-"), repeat=k)
Restrictions(k) ==
    LET P == Product(2, k)
    IN  [i \in 1 .. Len(P) |-> [j \in 1 .. k |-> IF P[i][j] = 0 THEN "+" ELSE "-"]]

\* PickRestriction(*rs) on a modified terminal: the combination's restriction
\* is put on an unrestricted Argument
PickRestriction(rs, mt) ==
    IF mt.kind = "Argument" /\ mt.restriction = "none"
    THEN [mt EXCEPT !.restriction = rs[mt.number + 1]]
    ELSE mt

\* the integral types of the model: the supported ones and two others
SupportedTypes ==
    {"cell", "exterior_facet", "interior_facet", "exterior_facet_bottom", "exterior_facet_top",
     "interior_facet_horiz", "exterior_facet_vert", "interior_facet_vert"}
OtherTypes == {"vertex", "interior_facet_top"}

\* integral_type.startswith("interior_facet"), on the types of the model
startswith_interior_facet(itype) ==
    itype \in {"interior_facet", "interior_facet_horiz", "interior_facet_vert", "interior_facet_top"}

\* a faulty process, which never restricts; C1 tells it from make_expressions
make_expressions_single(itype, k, terms) ==
    << [rs |-> <<>>, terms |-> terms] >>

\* the list expressions of process
make_expressions(itype, k, terms) ==
    IF startswith_interior_facet(itype)
    THEN LET R == Restrictions(k)
         IN  [i \in 1 .. Len(R) |-> [rs |-> R[i], terms |-> [j \in 1 .. Len(terms) |-> PickRestriction(R[i], terms[j])]]]
    ELSE << [rs |-> <<>>, terms |-> terms] >>

(***************************************************************************)
(* The inputs of process                                                   *)
(***************************************************************************)

\* mt.expr.ufl_shape: the element's value shape, then one extent per derivative
UflShape(e, n, d) == e.shape \o [i \in 1 .. d |-> n]

ModifiedTerminal(kind, number, e, d, r, n) ==
    [kind |-> kind, number |-> number, element |-> e.name, local_derivatives |-> d,
     restriction |-> r, shape |-> UflShape(e, n, d)]

NoElement == [name |-> "none", shape |-> <<>>]

\* the modified terminals an integrand of this integral type may hold: on an
\* interior facet every Coefficient with a basis is restricted, and the
\* Arguments are left to PickRestriction
Terminals(itype, k, n) ==
    LET interior == startswith_interior_facet(itype)
    IN  {ModifiedTerminal("Argument", a, e, d, "none", n) :
            a \in Range(k), e \in {x \in Elements : x.family # "Real"}, d \in 0 .. MaxDeriv}
        \cup {ModifiedTerminal("Coefficient", 0, e, d, r, n) :
            e \in {x \in Elements : x.family # "Real"}, d \in 0 .. MaxDeriv,
            r \in IF interior THEN {"+", "-"} ELSE {"none"}}
        \cup {ModifiedTerminal("Coefficient", 0, e, 0, "none", n) : e \in {x \in Elements : x.family = "Real"}}
        \cup {ModifiedTerminal("QuadratureWeight", 0, NoElement, 0, "none", n),
              ModifiedTerminal("GeometricQuantity", 0, NoElement, 0, "none", n)}

Integrands(itype, k, n) ==
    UNION {[1 .. len -> Terminals(itype, k, n)] : len \in 1 .. MaxTerminals}

TypesOf(cl) ==
    (IF cl.extruded
     THEN {"cell", "exterior_facet_bottom", "exterior_facet_top", "interior_facet_horiz",
           "exterior_facet_vert", "interior_facet_vert"}
     ELSE {"cell", "exterior_facet", "interior_facet"})

\* a basis library that is right up to round-off: a table of derivative order
\* above the degree vanishes, one at the degree is constant, one below varies
\* with the point and the facet
LibraryEntry(e, D) ==
    IF SeqSum(D) > e.degree THEN [row |-> [i \in 1 .. e.phi |-> 0], dp |-> 1, df |-> 0]
    ELSE IF SeqSum(D) = e.degree
    THEN [row |-> [i \in 1 .. e.phi |-> IF i % 2 = 1 THEN One ELSE 0 - One], dp |-> 0, df |-> 1]
    ELSE [row |-> [i \in 1 .. e.phi |-> IF i = 1 THEN One ELSE 0], dp |-> 0 - Half, df |-> Half]

LibraryKeys(n) == {<<e.name, D>> : e \in Elements, D \in MultiIndices(n, MaxDeriv)}

Library(n) == [k \in LibraryKeys(n) |-> LibraryEntry(ElementNamed(k[1]), k[2])]

\* a library whose first-derivative tables of P1 differ from facet to facet
DefectiveLibrary(n) ==
    [k \in LibraryKeys(n) |->
        IF k[1] = "P1" /\ SeqSum(k[2]) = 1
        THEN [LibraryEntry(ElementNamed(k[1]), k[2]) EXCEPT !.df = Half]
        ELSE LibraryEntry(ElementNamed(k[1]), k[2])]

NoCall == [fn |-> "none"]

Init ==
    /\ pc = "start"
    /\ error = "none"
    /\ cell \in Cells
    /\ integral_type \in TypesOf(cell) \cup OtherTypes
    /\ nargs \in 0 .. MaxArgs
    /\ integrand \in Integrands(integral_type, nargs, cell.tdim)
    /\ fiat \in {Library(cell.tdim), DefectiveLibrary(cell.tdim)}
    /\ max_derivs = <<>>
    /\ pending = {}
    /\ tables = <<>>
    /\ calls = <<>>
    /\ writes = <<>>
    /\ reads = {}
    /\ expressions = <<>>
    /\ results = <<>>
    /\ call = NoCall
    /\ ret = NoCall

(***************************************************************************)
(* The steps of process                                                    *)
(***************************************************************************)

\* simplify_abs, CollectModifiedTerminals and the loop that fills max_derivs
Collect ==
    /\ pc = "start"
    /\ max_derivs' = collect_max_derivs(integrand)
    /\ pc' = "construct"
    /\ UNCHANGED <<error, integral_type, nargs, cell, integrand, fiat, pending, tables,
                   calls, writes, reads, expressions, results, call, ret>>

\* TabulationManager(integral_type, cell, points)
Construct ==
    /\ pc = "construct"
    /\ IF NumTabulators(integral_type, cell) < 0
       THEN /\ pc' = "failed"
            /\ error' = "NotImplementedError"
            /\ pending' = pending
       ELSE /\ pc' = "tabulate"
            /\ error' = error
            /\ pending' = DOMAIN max_derivs
    /\ UNCHANGED <<integral_type, nargs, cell, integrand, fiat, max_derivs, tables,
                   calls, writes, reads, expressions, results, call, ret>>

\* self.tables[key] = table for the keys of W, with their tables T
Assign(cache, W, T) ==
    [k \in (DOMAIN cache) \cup W |-> IF k \in W THEN T[k] ELSE cache[k]]

Counted(count, W) ==
    [k \in (DOMAIN count) \cup W |->
        (IF k \in DOMAIN count THEN count[k] ELSE 0) + (IF k \in W THEN 1 ELSE 0)]

\* one turn of the loop over max_derivs.items(), for an element that is
\* tabulated: TabulationManager.tabulate(ufl_element, max_deriv).  The order
\* of a dict's items is not fixed, so any pending element may be next, and
\* when the facet check of a key fails any of the other keys may have been
\* stored before it.
TabulateElement ==
    /\ pc = "tabulate"
    /\ \E name \in pending :
       \E e \in {ElementNamed(name)} :
       \E store \in {Map([pr \in tabulate_pairs(e, cell.tdim, max_derivs[name]) |->
                        Store(fiat, integral_type, cell, e, max_derivs[name], pr[1], pr[2], NumPoints)])} :
          /\ e.family # "Real"
          /\ calls' = Append(calls, <<name, max_derivs[name]>>)
          /\ pending' = pending \ {name}
          /\ IF \E pr \in DOMAIN store : \E f \in 1 .. Len(store[pr]) : store[pr][f].status # "ok"
             THEN /\ pc' = "failed"
                  /\ error' = "AssertionError"
                  /\ UNCHANGED <<tables, writes>>
             ELSE \E ent \in {Map([pr \in DOMAIN store |-> entry(integral_type, store[pr])])} :
                  \E T \in {Map([k \in {Key(e, pr[1], pr[2]) : pr \in {x \in DOMAIN ent : ent[x].status = "ok"}} |->
                                   ent[<<k.c, k.D>>].value])} :
                     IF \A pr \in DOMAIN ent : ent[pr].status = "ok"
                     THEN /\ tables' = Assign(tables, DOMAIN T, T)
                          /\ writes' = Counted(writes, DOMAIN T)
                          /\ UNCHANGED <<pc, error>>
                     ELSE /\ pc' = "failed"
                          /\ error' = "AssertionError"
                          /\ \E W \in SUBSET (DOMAIN T) :
                                /\ tables' = Assign(tables, W, T)
                                /\ writes' = Counted(writes, W)
    /\ UNCHANGED <<integral_type, nargs, cell, integrand, fiat, max_derivs, reads,
                   expressions, results, call, ret>>

\* one turn of the same loop for an element of family Real: nothing is done
SkipReal ==
    /\ pc = "tabulate"
    /\ \E name \in pending :
        /\ ElementNamed(name).family = "Real"
        /\ pending' = pending \ {name}
    /\ UNCHANGED <<pc, error, integral_type, nargs, cell, integrand, fiat, max_derivs, tables,
                   calls, writes, reads, expressions, results, call, ret>>

\* the integrand variants, once the loop over max_derivs.items() has ended
Restrict ==
    /\ pc = "tabulate"
    /\ pending = {}
    /\ expressions' = make_expressions(integral_type, nargs, integrand)
    /\ pc' = "translate"
    /\ UNCHANGED <<error, integral_type, nargs, cell, integrand, fiat, max_derivs, pending,
                   tables, calls, writes, reads, results, call, ret>>

\* map_expr_dags(translator, expressions), one expression a step
TranslateExpression ==
    /\ pc = "translate"
    /\ Len(results) < Len(expressions)
    /\ LET expr == expressions[Len(results) + 1]
           outs == [j \in 1 .. Len(expr.terms) |-> translate(tables, integral_type, cell.tdim, expr.terms[j])]
           f == FirstFailure(outs)
           last == IF f = 0 THEN Len(outs) ELSE f
       IN  /\ reads' = reads \cup UNION {LookedUp(tables, integral_type, cell.tdim, expr.terms[j]) : j \in 1 .. last}
           /\ IF f = 0
              THEN /\ results' = Append(results, [rs |-> expr.rs, terms |-> [j \in 1 .. Len(outs) |-> outs[j].value]])
                   /\ UNCHANGED <<pc, error>>
              ELSE /\ pc' = "failed"
                   /\ error' = outs[f].status
                   /\ results' = results
    /\ UNCHANGED <<integral_type, nargs, cell, integrand, fiat, max_derivs, pending, tables,
                   calls, writes, expressions, call, ret>>

\* process returns the list
Return ==
    /\ pc = "translate"
    /\ Len(results) = Len(expressions)
    /\ pc' = "done"
    /\ UNCHANGED <<error, integral_type, nargs, cell, integrand, fiat, max_derivs, pending,
                   tables, calls, writes, reads, expressions, results, call, ret>>

Next == Collect \/ Construct \/ TabulateElement \/ SkipReal \/ Restrict \/ TranslateExpression \/ Return

Spec == Init /\ [][Next]_vars

(***************************************************************************)
(* TabulationManager.tabulate on its own: one element, one order, and a    *)
(* library whose answer for one derivative tuple is arbitrary.             *)
(***************************************************************************)

RowVals == {0, 6, One}
Deltas == {0, 1, Half}

LibraryEntries(phi) == [row : [1 .. phi -> RowVals], dp : Deltas, df : Deltas]

InitTab ==
    /\ pc = "tabulate"
    /\ error = "none"
    /\ cell \in Cells
    /\ integral_type \in TypesOf(cell)
    /\ nargs = 0
    /\ integrand = <<>>
    /\ \E e \in {x \in Elements : x.family # "Real"} : \E order \in 0 .. MaxDeriv :
          /\ max_derivs = [n \in {e.name} |-> order]
          /\ pending = {e.name}
          /\ \E D \in MultiIndices(cell.tdim, order) : \E entry0 \in LibraryEntries(e.phi) :
                fiat = [k \in LibraryKeys(cell.tdim) |->
                           IF k = <<e.name, D>> THEN entry0 ELSE LibraryEntry(ElementNamed(k[1]), k[2])]
    /\ tables = <<>>
    /\ calls = <<>>
    /\ writes = <<>>
    /\ reads = {}
    /\ expressions = <<>>
    /\ results = <<>>
    /\ call = NoCall
    /\ ret = NoCall

NextTab == TabulateElement

SpecTab == InitTab /\ [][NextTab]_vars

(***************************************************************************)
(* iterate_shape on its own, with a callback that returns its key          *)
(***************************************************************************)

Shapes == UNION {[1 .. r -> 1 .. MaxExtent] : r \in 0 .. MaxRank}

Idle ==
    /\ pc = "idle" /\ error = "none" /\ cell = CHOOSE c \in Cells : c.tdim = 1
    /\ integral_type = "cell" /\ nargs = 0 /\ integrand = <<>> /\ fiat = <<>>
    /\ max_derivs = <<>> /\ pending = {} /\ tables = <<>> /\ calls = <<>> /\ writes = <<>>
    /\ reads = {} /\ expressions = <<>> /\ results = <<>>

InitShape ==
    /\ Idle
    /\ call \in [fn : {"iterate_shape"}, rvs : 1 .. MaxComp, n : 1 .. MaxDim, d : 0 .. MaxOrder, shape : Shapes]
    /\ ret = NoCall

CallIterateShape ==
    /\ call.fn = "iterate_shape"
    /\ ret = NoCall
    /\ LET keys == iterate_keys([name |-> "E", rvs |-> call.rvs], call.n, call.d)
       IN  ret' = iterate_shape(Tuple([i \in 1 .. Len(keys) |-> Returned(keys[i])]), call.shape)
    /\ UNCHANGED <<procvars, call>>

NextShape == CallIterateShape

SpecShape == InitShape /\ [][NextShape]_vars

(***************************************************************************)
(* flat_index on its own, on two ordered derivative sequences              *)
(***************************************************************************)

InitKey ==
    /\ Idle
    /\ \E n \in 1 .. MaxDim : \E d \in 0 .. MaxOrder :
          call \in [fn : {"flat_index"}, n : {n}, d : {d}, a : [1 .. d -> Range(n)], b : [1 .. d -> Range(n)]]
    /\ ret = NoCall

CallFlatIndex ==
    /\ call.fn = "flat_index"
    /\ ret = NoCall
    /\ ret' = [fn |-> "flat_index", a |-> flat_index(call.a, call.n), b |-> flat_index(call.b, call.n)]
    /\ UNCHANGED <<procvars, call>>

NextKey == CallFlatIndex

SpecKey == InitKey /\ [][NextKey]_vars

(***************************************************************************)
(* The Coefficient rule on its own: one key of the cache and its table     *)
(***************************************************************************)

TableVals == {0, Half, 0 - One}
CoefficientVals == {0 - 1, 0, 3}

\* the tables a cache of a cell integral holds: a row, or rows over the points
CachedTables(phi) ==
    {Table(1, row) : row \in [1 .. phi -> TableVals]}
    \cup {Table(2, [p \in 1 .. NumPoints |-> row]) : row \in [1 .. phi -> {0, Half}]}

InitCoef ==
    /\ Idle
    /\ \E phi \in 1 .. MaxPhi :
          call \in [fn : {"coefficient"}, table : CachedTables(phi), w : [1 .. phi -> CoefficientVals]]
    /\ ret = NoCall

CoefficientKey == [element |-> "P1", c |-> 0, D |-> <<0>>]

CallCoefficient ==
    /\ call.fn = "coefficient"
    /\ ret = NoCall
    /\ ret' = coefficient_callback([k \in {CoefficientKey} |-> call.table], "cell",
                                   ModifiedTerminal("Coefficient", 0, ElementNamed("P1"), 0, "none", 1), CoefficientKey)
    /\ UNCHANGED <<procvars, call>>

NextCoef == CallCoefficient

SpecCoef == InitCoef /\ [][NextCoef]_vars

(***************************************************************************)
(* Properties                                                              *)
(***************************************************************************)

Called == ret # NoCall

\* digit pos (1 .. d, most significant first) of j written in base n with d digits
Digit(j, n, d, pos) == (j \div Pow(n, d - pos)) % n

\* the translation of the integrand with the restrictions rs put on its Arguments
TranslationOf(rs) ==
    [j \in 1 .. Len(integrand) |->
        translate(tables, integral_type, cell.tdim,
                  IF rs = <<>> THEN integrand[j] ELSE PickRestriction(rs, integrand[j])).value]

\* C1: when process returns, an interior-facet integral type with k argument
\* slots has produced 2^k results, result i being the translation of the
\* i-th element of {"+", "-"}^k in the order of the Cartesian power, every
\* combination once; any other integral type has produced the one translation
\* of the unrestricted integrand.
C1_RestrictionVariants ==
    pc = "done" =>
        IF integral_type \in {"interior_facet", "interior_facet_horiz", "interior_facet_vert"}
        THEN /\ Len(results) = Pow(2, nargs)
             /\ \A i \in 1 .. Len(results) :
                   /\ results[i].rs = [j \in 1 .. nargs |-> IF Digit(i - 1, 2, nargs, j) = 0 THEN "+" ELSE "-"]
                   /\ results[i].terms = TranslationOf(results[i].rs)
             /\ {results[i].rs : i \in 1 .. Len(results)} = [1 .. nargs -> {"+", "-"}]
        ELSE /\ Len(results) = 1
             /\ results[1].rs = <<>>
             /\ results[1].terms = TranslationOf(<<>>)

C1_Witness ==
    /\ pc = "done"
    /\ integral_type = "interior_facet"
    /\ nargs = 2
    /\ Len(results) = 4
    /\ \E j \in 1 .. Len(integrand) : integrand[j].kind = "Argument" /\ integrand[j].element = "P1"

\* C2: with an integral type outside the supported set process gets no
\* further than the construction of the TabulationManager, where it fails
\* with NotImplementedError; nothing has been tabulated, no variant produced
\* and no terminal translated.
C2_UnsupportedType ==
    integral_type \notin SupportedTypes =>
        /\ pc \in {"start", "construct", "failed"}
        /\ pc = "failed" => error = "NotImplementedError"
        /\ calls = <<>>
        /\ DOMAIN tables = {}
        /\ expressions = <<>>
        /\ results = <<>>
        /\ reads = {}

C2_Witness ==
    /\ pc = "failed"
    /\ error = "NotImplementedError"
    /\ integral_type = "interior_facet_top"
    /\ nargs = 2
    /\ \E j \in 1 .. Len(integrand) : integrand[j].kind = "Argument"

\* the scalar expressions of a terminal's translation
ScalarsOf(v) == IF v.node = "ListTensor" THEN {v.items[i] : i \in 1 .. Len(v.items)} ELSE {v}

ExpectedFacet(itype, r) ==
    CASE itype = "cell" -> [kind |-> "whole", size |-> 0, at |-> 0]
      [] itype \in {"exterior_facet", "exterior_facet_vert"} /\ r = "none" -> [kind |-> "variable", size |-> 1, at |-> 0]
      [] itype \in {"interior_facet", "interior_facet_vert"} /\ r = "+" -> [kind |-> "variable", size |-> 2, at |-> 0]
      [] itype \in {"interior_facet", "interior_facet_vert"} /\ r = "-" -> [kind |-> "variable", size |-> 2, at |-> 1]
      [] itype = "exterior_facet_bottom" /\ r = "none" -> [kind |-> "static", size |-> 0, at |-> 0]
      [] itype = "exterior_facet_top" /\ r = "none" -> [kind |-> "static", size |-> 0, at |-> 1]
      [] itype = "interior_facet_horiz" /\ r = "+" -> [kind |-> "static", size |-> 0, at |-> 1]
      [] itype = "interior_facet_horiz" /\ r = "-" -> [kind |-> "static", size |-> 0, at |-> 0]
      [] OTHER -> [kind |-> "invalid", size |-> 0, at |-> 0]

\* C8: every table that is not constant is indexed by the facet the
\* integral type and the terminal's restriction select: none for cell, slot
\* 0 of a one-slot variable for exterior_facet and exterior_facet_vert, slot
\* 0 for "+" and 1 for "-" of a two-slot variable for interior_facet and
\* interior_facet_vert (the index that also selects the side of a restricted
\* coefficient), static 0 for exterior_facet_bottom, static 1 for
\* exterior_facet_top, static 1 for "+" and 0 for "-" for interior_facet_horiz.
C8_FacetSelection ==
    \A i \in 1 .. Len(results) : \A j \in 1 .. Len(results[i].terms) :
        \A sc \in ScalarsOf(results[i].terms[j]) :
            sc.table.rank >= 2 =>
                /\ sc.facet = ExpectedFacet(integral_type, expressions[i].terms[j].restriction)
                /\ (expressions[i].terms[j].kind = "Coefficient"
                        /\ integral_type \in {"interior_facet", "interior_facet_vert"})
                    => sc.side = sc.facet.at

C8_Witness ==
    /\ pc = "done"
    /\ integral_type = "interior_facet_horiz"
    /\ \E i \in 1 .. Len(results) : \E j \in 1 .. Len(results[i].terms) :
          /\ expressions[i].terms[j].kind = "Argument"
          /\ expressions[i].terms[j].restriction = "-"
          /\ results[i].terms[j].node = "Indexed"
          /\ results[i].terms[j].table.rank = 3
          /\ results[i].terms[j].facet = [kind |-> "static", size |-> 0, at |-> 0]

\* the terminals of the integrand that carry the element named e
TerminalsOn(e) ==
    {j \in 1 .. Len(integrand) : integrand[j].kind \in {"Argument", "Coefficient"} /\ integrand[j].element = e}

\* C9: TabulationManager.tabulate is called at most once for an element,
\* with the largest local_derivatives of the element's Argument and
\* Coefficient terminals, and never for an element of family Real; no key
\* of the cache is assigned twice; and once the translator has looked a key
\* up the cache does not change any more.
C9_WriteOnce ==
    /\ [](/\ \A a \in 1 .. Len(calls) : \A b \in 1 .. Len(calls) : calls[a][1] = calls[b][1] => a = b
          /\ \A a \in 1 .. Len(calls) :
                /\ ElementNamed(calls[a][1]).family # "Real"
                /\ \A j \in TerminalsOn(calls[a][1]) : integrand[j].local_derivatives <= calls[a][2]
                /\ \E j \in TerminalsOn(calls[a][1]) : integrand[j].local_derivatives = calls[a][2]
          /\ \A k \in DOMAIN writes : writes[k] <= 1
          /\ reads # {} => pending = {} /\ pc \in {"translate", "done", "failed"})
    /\ [][reads # {} => tables' = tables]_vars

C9_Witness ==
    /\ pc = "done"
    /\ Len(calls) = 1
    /\ calls[1][2] = 1
    /\ reads # {}
    /\ \E j \in 1 .. Len(integrand) :
          /\ integrand[j].element = calls[1][1]
          /\ integrand[j].local_derivatives < calls[1][2]

\* C10: with a library that answers every derivative tuple up to the order
\* asked for, every key (element, c, D) the translation of an Argument or
\* Coefficient terminal looks up is in the cache, for every element, one
\* with symmetry included.
C10_CacheCoverage == \A k \in reads : k \in DOMAIN tables

\* the element TabulationManager.tabulate was called with
Tabulated == ElementNamed(calls[1][1])

\* C3 as stated: every table of an element whose degree is at most the order
\* handed to tabulate is stored in 1-D form.
C3_ConstantByRequestedOrder ==
    \A k \in DOMAIN tables :
        ElementNamed(k.element).degree <= max_derivs[k.element] => tables[k].rank = 1

\* C3: a table is stored in 1-D form exactly when the degree of its element
\* is at most the order of its own derivative tuple, the sum of D, whatever
\* its numbers are and whatever larger order tabulate was called with.
C3_ConstantByTableOrder ==
    \A k \in DOMAIN tables :
        (tables[k].rank = 1) <=> (ElementNamed(k.element).degree <= SeqSum(k.D))

C3_Witness ==
    /\ integral_type = "cell"
    /\ calls = << <<"P1", 1>> >>
    /\ \E k \in DOMAIN tables :
          /\ SeqSum(k.D) = 0
          /\ tables[k].rank = 2
          /\ \A p \in 1 .. Len(tables[k].data) : tables[k].data[p] = tables[k].data[1]

\* the numbers of the library's table for key k on entity f after rounding,
\* one row per point
RoundedRows(k, f) ==
    [p \in 1 .. NumPoints |-> [i \in 1 .. ElementNamed(k.element).phi |->
        Snap(FiatTable(fiat, ElementNamed(k.element), k.D, f, NumPoints)[i][k.c + 1][p])]]

\* every one of the numbers vals is within the tolerance of their mean
NearMean(vals) ==
    \A r \in 1 .. Len(vals) : Abs(Len(vals) * vals[r] - SeqSum(vals)) <= Len(vals) * Tol

\* on every entity the rows over the points are mean-equal
PointsPass(k) ==
    \A f \in 1 .. NumTabulators(integral_type, cell) : \A i \in 1 .. ElementNamed(k.element).phi :
        NearMean([p \in 1 .. NumPoints |-> RoundedRows(k, f)[p][i]])

\* the representative rows of the entities are mean-equal
FacetsPass(k) ==
    \A i \in 1 .. ElementNamed(k.element).phi :
        NearMean([f \in 1 .. NumTabulators(integral_type, cell) |-> RoundedRows(k, f)[1][i]])

Passed(k) == PointsPass(k) /\ (integral_type # "cell" => FacetsPass(k))

\* the keys of the call whose table the symbolic rule declares constant
DeclaredConstant ==
    {[element |-> Tabulated.name, c |-> c, D |-> D] :
        c \in Range(Tabulated.rvs - Tabulated.nsym),
        D \in {x \in MultiIndices(cell.tdim, calls[1][2]) : Tabulated.degree <= SeqSum(x)}}

\* C4: every 1-D table of the cache passed the mean check over the points
\* and, for an integral type other than cell, over the facets; and when a key
\* the rule declares constant does not pass, tabulate ends with an
\* AssertionError and the key is not in the cache.
C4_MeanChecked ==
    /\ \A k \in DOMAIN tables : tables[k].rank = 1 => Passed(k)
    /\ calls # <<>> =>
          \A k \in DeclaredConstant :
              ~Passed(k) => pc = "failed" /\ error = "AssertionError" /\ k \notin DOMAIN tables

C4_Witness ==
    /\ integral_type = "exterior_facet"
    /\ pc = "failed"
    /\ calls # <<>>
    /\ \E k \in DeclaredConstant : PointsPass(k) /\ ~FacetsPass(k)
    /\ \E k \in DOMAIN tables : tables[k].rank = 1

\* the contraction: the sum over all basis indices of table[i] * coefficient[i]
Contraction(row, w) == SeqSum([i \in 1 .. Len(row) |-> row[i] * w[i]])

\* the value of an expanded sum: its products, at the basis indices terms
SumValue(row, w, terms) == SeqSum([j \in 1 .. Len(terms) |-> row[terms[j] + 1] * w[terms[j] + 1]])

NonZeros(row) == Cardinality({i \in 1 .. Len(row) : row[i] # 0})

\* C5: for a 1-D table with at most two nonzero entries the Coefficient rule
\* returns an explicit sum, not an index-sum, whose value is the contraction
\* of the table with the coefficient values; for a 1-D table with more
\* nonzero entries and for every other table it returns an index-sum over
\* the table.
C5_SparseContraction ==
    Called =>
        /\ ret.status = "ok"
        /\ ret.value.table = call.table
        /\ IF call.table.rank = 1 /\ NonZeros(call.table.data) <= 2
           THEN /\ ret.value.node = "Sum"
                /\ SumValue(call.table.data, call.w, ret.value.terms) = Contraction(call.table.data, call.w)
           ELSE ret.value.node = "IndexSum"

C5_Witness ==
    /\ Called
    /\ ret.value.node = "Sum"
    /\ Len(call.table.data) = 3
    /\ call.table.data[1] = 0
    /\ call.table.data[3] # 0
    /\ call.w[3] # 0
    /\ NonZeros(call.table.data) = 2

\* the key of result i (1-based) when the components are the outer loop and
\* the ordered derivative sequences of length d, in the order of the
\* Cartesian power, the inner one
ExpectedKey(i, n, d) ==
    [element |-> "E",
     c |-> (i - 1) \div Pow(n, d),
     D |-> [k \in 1 .. n |-> Cardinality({pos \in 1 .. d : Digit((i - 1) % Pow(n, d), n, d, pos) = k - 1})]]

\* C6: iterate_shape gathers rvs * n^d results, component-major and in the
\* order of the ordered derivative sequences within a component; it returns
\* only when that count is the product of the shape and fails with an
\* AssertionError otherwise; with the empty shape it returns the one scalar
\* itself, with any other shape a tensor of that shape over the results.
C6_ShapeEnumeration ==
    Called =>
        IF call.rvs * Pow(call.n, call.d) # Prod(call.shape)
        THEN ret.status = "AssertionError"
        ELSE /\ ret.status = "ok"
             /\ IF call.shape = <<>>
                THEN ret.value = ExpectedKey(1, call.n, call.d)
                ELSE /\ ret.value.node = "ListTensor"
                     /\ ret.value.shape = call.shape
                     /\ Len(ret.value.items) = call.rvs * Pow(call.n, call.d)
                     /\ \A i \in 1 .. Len(ret.value.items) :
                           ret.value.items[i] = ExpectedKey(i, call.n, call.d)

C6_Witness ==
    /\ Called
    /\ ret.status = "ok"
    /\ call.rvs = 2
    /\ call.n = 2
    /\ call.d = 1
    /\ call.shape = <<2, 2>>

\* b is a reordering of a
IsPermutation(a, b) ==
    /\ Len(a) = Len(b)
    /\ \E p \in [1 .. Len(a) -> 1 .. Len(a)] :
          /\ \A i \in 1 .. Len(a) : \A j \in 1 .. Len(a) : p[i] = p[j] => i = j
          /\ \A i \in 1 .. Len(a) : b[i] = a[p[i]]

\* C7: the key of an ordered derivative sequence of length d over the
\* directions 0 .. n-1 has n entries, entry k the number of occurrences of
\* direction k; the entries are non-negative and sum to d; and two sequences
\* have the same key exactly when one is a reordering of the other.
C7_FlatIndex ==
    Called =>
        /\ DOMAIN ret.a = 1 .. call.n
        /\ \A k \in 1 .. call.n :
              /\ ret.a[k] = Cardinality({pos \in 1 .. call.d : call.a[pos] = k - 1})
              /\ ret.a[k] >= 0
        /\ SeqSum(ret.a) = call.d
        /\ (ret.a = ret.b) <=> IsPermutation(call.a, call.b)

C7_Witness ==
    /\ Called
    /\ call.d = 2
    /\ call.n = 3
    /\ call.a # call.b
    /\ ret.a = ret.b
    /\ ret.a[3] = 1

====
